---- MODULE Spec2Model ----
(***************************************************************************)
(* Model of src/app.py: the materials dashboard.  One script run (a        *)
(* Streamlit render pass) calls the cached load_data, gates on its result  *)
(* and then evaluates the three tabs (search, filter, comparator) against  *)
(* the loaded table with the current widget values.                        *)
(*                                                                         *)
(* Text is a sequence of one-character strings.  The non-ASCII column      *)
(* names and diagnostics of the source are written in ASCII here.          *)
(***************************************************************************)
EXTENDS Integers, Sequences, FiniteSets, TLC

VARIABLES
    file,               \* data.csv on disk: presence, what each reader makes of it
    cache,              \* st.cache_data entry of load_data
    df, num_cols,       \* module globals assigned at line 45
    tried,              \* readers called by load_data in this pass, in call order
    status,             \* "init" | "error" | "ok" | "crashed" (uncaught exception)
    ui,                 \* the tab steps this pass executed, in order
    query,              \* tab1 text_input
    hrc_min, hrc_max,   \* tab2 range slider (or the literals of lines 91-92)
    cr_limit, c_limit,  \* tab2 sliders
    selected_materials, \* tab3 multiselect
    results,            \* tab1: df[mask], or the preview df.head(5)
    filtered_df,        \* tab2
    subset,             \* tab3: df[df[IdCol].isin(selected_materials)]
    summary,            \* tab3: avg_hrc, max_cr
    traces              \* tab3: one radar trace per subset row

vars == <<file, cache, df, num_cols, tried, status, ui, query, hrc_min, hrc_max,
          cr_limit, c_limit, selected_materials, results, filtered_df, subset,
          summary, traces>>

-----------------------------------------------------------------------------
(* Bounds of the model *)

MaxRows == 3
MaxLongRows == 6
MaxQueryLen == 2
MaxSessionRows == 2

-----------------------------------------------------------------------------
(* Text helpers *)

\* str.lower on one character; A and B are the upper-case letters in use
Lower(c) == IF c = "A" THEN "a" ELSE IF c = "B" THEN "b" ELSE c

LowerText(s) == [i \in 1..Len(s) |-> Lower(s[i])]

\* Python's `p in s` for strings: p occurs in s as a contiguous substring.
Contains(s, p) ==
    \E off \in 0..(Len(s) - Len(p)) :
        \A j \in 1..Len(p) : s[off + j] = p[j]

DigitChar == <<"0", "1", "2", "3", "4", "5", "6", "7", "8", "9">>

IsDigit(c) == \E d \in 1..Len(DigitChar) : DigitChar[d] = c

DigitVal(c) == (CHOOSE d \in 1..Len(DigitChar) : DigitChar[d] = c) - 1

RECURSIVE Digits(_)
\* str(n) for a non-negative integer n
Digits(n) ==
    IF n < Len(DigitChar) THEN <<DigitChar[n + 1]>>
    ELSE Digits(n \div Len(DigitChar)) \o <<DigitChar[(n % Len(DigitChar)) + 1]>>

IsIntLit(s) == Len(s) > 0 /\ \A i \in 1..Len(s) : IsDigit(s[i])

RECURSIVE ParseInt(_)
ParseInt(s) ==
    IF Len(s) = 0 THEN 0
    ELSE ParseInt(SubSeq(s, 1, Len(s) - 1)) * Len(DigitChar) + DigitVal(s[Len(s)])

IsInfLit(s) == LowerText(s) = <<"i", "n", "f">>

-----------------------------------------------------------------------------
(* Cells of a DataFrame.  k is the Python type of the value:               *)
(*   "str" text s; "int" integer n; "float" the float n.0; "nan" missing;  *)
(*   "inf" float infinity.                                                 *)

StrCell(s) == [k |-> "str", n |-> 0, s |-> s]
IntCell(n) == [k |-> "int", n |-> n, s |-> <<>>]
FloatCell(n) == [k |-> "float", n |-> n, s |-> <<>>]
NaN == [k |-> "nan", n |-> 0, s |-> <<>>]
Inf == [k |-> "inf", n |-> 0, s |-> <<>>]

IsFinite(c) == c.k \in {"int", "float"}

\* str(value), as DataFrame.astype(str) renders each cell
Stringify(c) ==
    CASE c.k = "str" -> c.s
      [] c.k = "int" -> Digits(c.n)
      [] c.k = "float" -> Digits(c.n) \o <<".", "0">>
      [] c.k = "nan" -> <<"n", "a", "n">>
      [] c.k = "inf" -> <<"i", "n", "f">>

\* value >= x and value <= x for a numeric cell and a slider value x
CellGE(c, x) == c.k = "inf" \/ (IsFinite(c) /\ c.n >= x)
CellLE(c, x) == IsFinite(c) /\ c.n <= x

-----------------------------------------------------------------------------
(* Column names.  IdCol, StdCol and DescCol stand for the three Chinese    *)
(* display columns of line 118; NameText gives each name's characters.     *)

IdCol == "duibi_xiangmu"
StdCol == "shiyong_biaozhun"
DescCol == "cailiao_shuoming"
GradeCol == "2083"

NameText(c) ==
    CASE c = "HRC_Avg" -> <<"H", "R", "C", "_", "A", "v", "g">>
      [] c = "Cr_Avg" -> <<"C", "r", "_", "A", "v", "g">>
      [] c = "C_Avg" -> <<"C", "_", "A", "v", "g">>
      [] c = "Mn_Avg" -> <<"M", "n", "_", "A", "v", "g">>
      [] c = GradeCol -> <<"2", "0", "8", "3">>
      [] c = IdCol -> <<"d", "u", "i", "b", "i">>
      [] c = StdCol -> <<"s", "h", "i", "y", "o", "n", "g">>
      [] c = DescCol -> <<"c", "a", "i", "l", "i", "a", "o">>

Range(s) == {s[i] : i \in 1..Len(s)}

\* [c for c in cs if P(c)], order kept
RECURSIVE SelectCols(_, _)
SelectCols(cs, keep) ==
    IF Len(cs) = 0 THEN <<>>
    ELSE IF Head(cs) \in keep THEN <<Head(cs)>> \o SelectCols(Tail(cs), keep)
    ELSE SelectCols(Tail(cs), keep)

-----------------------------------------------------------------------------
(* Tables.  A DataFrame is its column list, the set of columns whose label *)
(* is a Python int (read_excel keeps a numeric header cell as a number),   *)
(* and its rows; None is the table with none = TRUE.                       *)

None == [none |-> TRUE, cols |-> <<>>, inthdr |-> {}, rows |-> <<>>]

Table(cols, inthdr, rows) ==
    [none |-> FALSE, cols |-> cols, inthdr |-> inthdr, rows |-> rows]

Column(rows, c) == [i \in 1..Len(rows) |-> rows[i][c]]

\* dtype the parser infers for a column of raw text cells
InferDtype(raw) ==
    IF \A i \in 1..Len(raw) : IsIntLit(raw[i]) THEN "int64"
    ELSE IF \A i \in 1..Len(raw) :
                IsIntLit(raw[i]) \/ Len(raw[i]) = 0 \/ IsInfLit(raw[i])
         THEN "float64"
    ELSE "object"

ReadCell(dtype, raw) ==
    CASE dtype = "int64" -> IntCell(ParseInt(raw))
      [] dtype = "float64" ->
            IF Len(raw) = 0 THEN NaN
            ELSE IF IsInfLit(raw) THEN Inf
            ELSE FloatCell(ParseInt(raw))
      [] dtype = "object" -> IF Len(raw) = 0 THEN NaN ELSE StrCell(raw)

Readers == <<"csv-utf8", "csv-gbk", "excel">>

\* What reader `name` returns for file f when it does not raise.
ReadTable(f, name) ==
    Table(f.cols,
          IF name = "excel" THEN f.inthdr \cap Range(f.cols) ELSE {},
          [i \in 1..Len(f.rows) |->
              [c \in Range(f.cols) |->
                  ReadCell(InferDtype(Column(f.rows, c)), f.rows[i][c])]])

ReaderRaises(f, name) == name \notin f.ok

\* The loop of lines 26-31, from reader i on: df and the readers called.
RECURSIVE TryReaders(_, _)
TryReaders(f, i) ==
    IF i > Len(Readers) THEN [df |-> None, tried |-> <<>>]
    ELSE IF ~ReaderRaises(f, Readers[i])
         THEN [df |-> ReadTable(f, Readers[i]), tried |-> <<Readers[i]>>]
    ELSE LET rest == TryReaders(f, i + 1)
         IN  [df |-> rest.df, tried |-> <<Readers[i]>> \o rest.tried]

\* pd.to_numeric(..., errors='coerce') on one value
CoerceCell(c) ==
    IF c.k = "str"
    THEN IF IsIntLit(c.s) THEN IntCell(ParseInt(c.s))
         ELSE IF IsInfLit(c.s) THEN Inf
         ELSE NaN
    ELSE c

\* pd.to_numeric on a column: one dtype for the whole result
ToNumeric(col) ==
    LET co == [i \in 1..Len(col) |-> CoerceCell(col[i])]
    IN  IF \A i \in 1..Len(co) : co[i].k = "int" THEN co
        ELSE [i \in 1..Len(co) |->
                 IF co[i].k = "int" THEN FloatCell(co[i].n) ELSE co[i]]

\* Series.fillna(0)
FillNa(col) == [i \in 1..Len(col) |-> IF col[i].k = "nan" THEN FloatCell(0) ELSE col[i]]

Avg == <<"A", "v", "g">>

\* line 38; evaluating 'Avg' in c raises TypeError when c is an int label
NumColsRaises(t) == t.inthdr # {}

NumCols(t) == SelectCols(t.cols, {c \in Range(t.cols) : Contains(NameText(c), Avg)})

\* lines 40-41
Normalize(t) ==
    LET num == Range(NumCols(t))
        fixed(c) == FillNa(ToNumeric(Column(t.rows, c)))
    IN  [t EXCEPT !.rows =
            [i \in 1..Len(t.rows) |->
                [c \in Range(t.cols) |->
                    IF c \in num THEN fixed(c)[i] ELSE t.rows[i][c]]]]

DiagNotFound == "data.csv not found"
DiagUnreadable == "file could not be read, check the format"

\* load_data(): raised = an exception leaves the function
load_data(f) ==
    IF ~f.exists
    THEN [raised |-> FALSE, df |-> None, num_cols |-> DiagNotFound, tried |-> <<>>]
    ELSE LET r == TryReaders(f, 1)
         IN  IF r.df.none
             THEN [raised |-> FALSE, df |-> None, num_cols |-> DiagUnreadable,
                   tried |-> r.tried]
             ELSE IF NumColsRaises(r.df)
             THEN [raised |-> TRUE, df |-> None, num_cols |-> <<>>, tried |-> r.tried]
             ELSE [raised |-> FALSE, df |-> Normalize(r.df),
                   num_cols |-> NumCols(r.df), tried |-> r.tried]

-----------------------------------------------------------------------------
(* Derived frames.  df[mask] keeps the index labels of the rows it keeps,  *)
(* so a derived frame is the sequence of row positions of df it holds;     *)
(* made = FALSE is a name the pass never assigned.                         *)

NoView == [made |-> FALSE, idx |-> <<>>]
View(idx) == [made |-> TRUE, idx |-> idx]

\* the positions among idx, in order, whose row satisfies keep
RECURSIVE SelectIdx(_, _)
SelectIdx(idx, keep) ==
    IF Len(idx) = 0 THEN <<>>
    ELSE IF Head(idx) \in keep THEN <<Head(idx)>> \o SelectIdx(Tail(idx), keep)
    ELSE SelectIdx(Tail(idx), keep)

AllIdx(t) == [i \in 1..Len(t.rows) |-> i]

-----------------------------------------------------------------------------
(* Tab 1: search, lines 64-78 *)

HeadRows == 5

\* re.compile(query) raises re.error: over the characters used here, exactly
\* when the pattern opens a group that is never closed.
RegexRaises(q) == "(" \in Range(q) /\ ")" \notin Range(q)

\* re.search(q, s, re.IGNORECASE) for a pattern of literal characters and "."
RegexSearch(q, s) ==
    \E off \in 0..(Len(s) - Len(q)) :
        \A j \in 1..Len(q) : q[j] = "." \/ Lower(q[j]) = Lower(s[off + j])

\* Series.str.contains(query, case=False): regex=True is the default
StrContains(s, q) == RegexSearch(q, s)

\* line 68: the rows where any stringified column contains the query
Mask(t, q) ==
    {i \in 1..Len(t.rows) :
        \E c \in Range(t.cols) : StrContains(Stringify(t.rows[i][c]), q)}

\* df instead of df.head(5): the preview shows every row
HeadIdxWholeTable(t) == [i \in 1..Len(t.rows) |-> i]

\* df.head(5)
HeadIdx(t) == [i \in 1..(IF Len(t.rows) < HeadRows THEN Len(t.rows) ELSE HeadRows) |-> i]

\* DataFrame.apply on a frame without rows never reaches str.contains (it
\* probes the function on an empty Series and swallows what that raises), so
\* the pattern is compiled only when the table has rows.
Search(t, q) ==
    IF Len(q) > 0
    THEN IF Len(t.rows) > 0 /\ RegexRaises(q)
         THEN [raised |-> TRUE, results |-> NoView, step |-> "search"]
         ELSE [raised |-> FALSE, results |-> View(SelectIdx(AllIdx(t), Mask(t, q))),
               step |-> "search"]
    ELSE [raised |-> FALSE, results |-> View(HeadIdx(t)), step |-> "preview"]

-----------------------------------------------------------------------------
(* Tab 2: filter, lines 90-120 *)

HrcLiteralMin == 0
HrcLiteralMax == 65
HrcDefaultMin == 20
HrcDefaultMax == 60
HrcSliderMax == 70
CrSliderMax == 20

HasCol(t, c) == c \in Range(t.cols)

\* the hardness test without its upper bound
FilterLowerBoundOnly(t, lo, hi, cr, c) ==
    LET f0 == AllIdx(t)
        f1 == IF HasCol(t, "HRC_Avg")
              THEN SelectIdx(f0, {i \in 1..Len(t.rows) : CellGE(t.rows[i]["HRC_Avg"], lo)})
              ELSE f0
        f2 == IF HasCol(t, "Cr_Avg")
              THEN SelectIdx(f1, {i \in 1..Len(t.rows) : CellGE(t.rows[i]["Cr_Avg"], cr)})
              ELSE f1
        f3 == IF HasCol(t, "C_Avg")
              THEN SelectIdx(f2, {i \in 1..Len(t.rows) : CellGE(t.rows[i]["C_Avg"], c)})
              ELSE f2
    IN  View(f3)

Filter(t, lo, hi, cr, c) ==
    LET f0 == AllIdx(t)
        f1 == IF HasCol(t, "HRC_Avg")
              THEN SelectIdx(f0, {i \in 1..Len(t.rows) :
                        CellGE(t.rows[i]["HRC_Avg"], lo) /\ CellLE(t.rows[i]["HRC_Avg"], hi)})
              ELSE f0
        f2 == IF HasCol(t, "Cr_Avg")
              THEN SelectIdx(f1, {i \in 1..Len(t.rows) : CellGE(t.rows[i]["Cr_Avg"], cr)})
              ELSE f1
        f3 == IF HasCol(t, "C_Avg")
              THEN SelectIdx(f2, {i \in 1..Len(t.rows) : CellGE(t.rows[i]["C_Avg"], c)})
              ELSE f2
    IN  View(f3)

show_cols == <<IdCol, StdCol, DescCol, "HRC_Avg", "Cr_Avg", "C_Avg">>

final_cols(t) == SelectCols(show_cols, Range(t.cols))

-----------------------------------------------------------------------------
(* Tab 3: comparator, lines 129-174 *)

\* Series.unique(): the distinct values in order of first appearance
RECURSIVE Unique(_)
Unique(col) ==
    IF Len(col) = 0 THEN <<>>
    ELSE LET before == Unique(SubSeq(col, 1, Len(col) - 1))
             last == col[Len(col)]
         IN  IF last \in Range(before) THEN before ELSE Append(before, last)

material_list(t) == IF HasCol(t, IdCol) THEN Unique(Column(t.rows, IdCol)) ELSE <<>>

\* default= of the multiselect, line 130
DefaultSelection(t) ==
    LET ml == material_list(t)
    IN  IF Len(ml) > 1 THEN {ml[1], ml[2]} ELSE {}

RECURSIVE SumCells(_)
SumCells(col) == IF Len(col) = 0 THEN 0 ELSE col[1].n + SumCells(Tail(col))

\* a float as the ratio num/den, or "nan" / "inf"
Ratio(k, num, den) == [k |-> k, num |-> num, den |-> den]

Zero == Ratio("int", 0, 1)

\* the mean with the sample denominator n - 1: 0/0 for a single value
MeanSampleDenominator(col) ==
    IF Len(col) <= 1 THEN Ratio("nan", 0, 1)
    ELSE IF \E i \in 1..Len(col) : col[i].k = "inf" THEN Ratio("inf", 0, 1)
    ELSE Ratio("float", SumCells(col), Len(col) - 1)

\* Series.mean() of a numeric column
Mean(col) ==
    IF Len(col) = 0 THEN Ratio("nan", 0, 1)
    ELSE IF \E i \in 1..Len(col) : col[i].k = "inf" THEN Ratio("inf", 0, 1)
    ELSE Ratio("float", SumCells(col), Len(col))

\* Series.max() of a numeric column
Max(col) ==
    IF Len(col) = 0 THEN Ratio("nan", 0, 1)
    ELSE IF \E i \in 1..Len(col) : col[i].k = "inf" THEN Ratio("inf", 0, 1)
    ELSE LET top == CHOOSE i \in 1..Len(col) : \A j \in 1..Len(col) : col[j].n <= col[i].n
         IN  Ratio(col[top].k, col[top].n, 1)

ViewColumn(t, v, c) == [i \in 1..Len(v.idx) |-> t.rows[v.idx[i]][c]]

NoSummary == [made |-> FALSE, avg_hrc |-> Zero, max_cr |-> Zero]

chem_cols == <<"C_Avg", "Cr_Avg", "Mn_Avg", "Mo_Avg", "Ni_Avg", "V_Avg">>

valid_chem_cols(t) == SelectCols(chem_cols, Range(t.cols))

\* a comparison only from two selected identifiers on
HasSelectionOfTwo(sel) == Cardinality(sel) >= 2

\* line 132: a non-empty list is true
HasSelection(sel) == sel # {}

\* dtype of column c of a table with rows, as the parser and to_numeric left it
ColDtype(t, c) ==
    IF \E i \in 1..Len(t.rows) : t.rows[i][c].k = "str" THEN "object"
    ELSE IF \A i \in 1..Len(t.rows) : t.rows[i][c].k = "int" THEN "int64"
    ELSE "float64"

\* dtype of DataFrame.values: the common dtype of all the columns
RowDtype(t) ==
    IF \E c \in Range(t.cols) : ColDtype(t, c) = "object" THEN "object"
    ELSE IF \A c \in Range(t.cols) : ColDtype(t, c) = "int64" THEN "int64"
    ELSE "float64"

\* line 163: iterrows hands out row i as one Series of the common dtype, so
\* in a frame of int64 and float64 columns the integers become floats
iterrows(t, i) ==
    [c \in Range(t.cols) |->
        IF RowDtype(t) = "float64" /\ t.rows[i][c].k = "int"
        THEN FloatCell(t.rows[i][c].n)
        ELSE t.rows[i][c]]

Compare(t, sel) ==
    IF HasSelection(sel)
    THEN LET sub == View(SelectIdx(AllIdx(t),
                        {i \in 1..Len(t.rows) : t.rows[i][IdCol] \in sel}))
             vc == valid_chem_cols(t)
         IN  [subset |-> sub,
              summary |->
                 [made |-> TRUE,
                  avg_hrc |-> IF HasCol(t, "HRC_Avg")
                              THEN Mean(ViewColumn(t, sub, "HRC_Avg")) ELSE Zero,
                  max_cr |-> IF HasCol(t, "Cr_Avg")
                             THEN Max(ViewColumn(t, sub, "Cr_Avg")) ELSE Zero],
              traces |->
                 IF Len(vc) > 0
                 THEN [i \in 1..Len(sub.idx) |->
                          [name |-> iterrows(t, sub.idx[i])[IdCol],
                           r |-> [j \in 1..Len(vc) |-> iterrows(t, sub.idx[i])[vc[j]]]]]
                 ELSE <<>>,
              step |-> "compare"]
    ELSE [subset |-> NoView, summary |-> NoSummary, traces |-> <<>>,
          step |-> "nocompare"]

-----------------------------------------------------------------------------
(* One script run *)

Widgets(q, lo, hi, cr, c, sel) ==
    [query |-> q, hrc_min |-> lo, hrc_max |-> hi, cr_limit |-> cr, c_limit |-> c,
     sel |-> sel]

\* what the widgets return on the first run of a session (lines 64, 91-98, 130)
DefaultWidgets(t) ==
    Widgets(<<>>,
            IF HasCol(t, "HRC_Avg") THEN HrcDefaultMin ELSE HrcLiteralMin,
            IF HasCol(t, "HRC_Avg") THEN HrcDefaultMax ELSE HrcLiteralMax,
            0, 0, DefaultSelection(t))

CurrentWidgets == Widgets(query, hrc_min, hrc_max, cr_limit, c_limit, selected_materials)

\* the filter applied to df itself instead of to a copy
AfterTabsInPlace(t, f) ==
    IF f.made THEN [t EXCEPT !.rows = [k \in 1..Len(f.idx) |-> t.rows[f.idx[k]]]] ELSE t

\* The table the tabs leave behind, given the filtered frame f: tab 2 filters a
\* copy (line 104) and no tab assigns to df or to a column of it.
AfterTabs(t, f) == t

\* the else branch of line 50: the three tabs in order; an exception in tab 1
\* ends the run before tabs 2 and 3.  No tab assigns df: the filter works on
\* df.copy(), the others on df[mask], so the page's df is t itself.
Render(t, w) ==
    LET s == Search(t, w.query)
        f == Filter(t, w.hrc_min, w.hrc_max, w.cr_limit, w.c_limit)
        c == Compare(t, w.sel)
    IN  IF s.raised
        THEN [status |-> "crashed", df |-> AfterTabs(t, NoView), ui |-> <<s.step>>, results |-> NoView,
              filtered_df |-> NoView, subset |-> NoView, summary |-> NoSummary,
              traces |-> <<>>]
        ELSE [status |-> "ok", df |-> AfterTabs(t, f), ui |-> <<s.step, "filter", c.step>>,
              results |-> s.results, filtered_df |-> f, subset |-> c.subset,
              summary |-> c.summary, traces |-> c.traces]

\* lines 48-49: only st.error runs
ErrorPage ==
    [status |-> "error", df |-> None, ui |-> <<"error">>, results |-> NoView,
     filtered_df |-> NoView, subset |-> NoView, summary |-> NoSummary, traces |-> <<>>]

\* load_data raised at line 45: nothing below it runs
CrashPage ==
    [status |-> "crashed", df |-> None, ui |-> <<>>, results |-> NoView,
     filtered_df |-> NoView, subset |-> NoView, summary |-> NoSummary, traces |-> <<>>]

\* the gate on df is None left out
GateWithoutCheck(r, w) ==
    IF r.raised THEN CrashPage ELSE Render(r.df, w)

\* lines 45-50: the run ends at an exception of load_data, shows the diagnostic
\* if df is None, and renders the tabs otherwise
Gate(r, w) ==
    IF r.raised THEN CrashPage
    ELSE IF r.df.none THEN ErrorPage
    ELSE Render(r.df, w)

EmptyCache == [full |-> FALSE, df |-> None, num_cols |-> <<>>]

\* @st.cache_data: a stored return value is reused, the body is not run again
CacheHit(c) == c.full

\* The whole script with the widget values w (fresh: a session's first run,
\* the widgets return their defaults).
Pass(w, fresh) ==
    \E r \in {IF CacheHit(cache)
              THEN [raised |-> FALSE, df |-> cache.df, num_cols |-> cache.num_cols,
                    tried |-> <<>>]
              ELSE load_data(file)} :
    \E ww \in {IF fresh /\ ~r.df.none THEN DefaultWidgets(r.df) ELSE w} :
    \E page \in {Gate(r, ww)} :
        /\ cache' = IF CacheHit(cache) \/ r.raised THEN cache
                    ELSE [full |-> TRUE, df |-> r.df, num_cols |-> r.num_cols]
        /\ df' = page.df
        /\ num_cols' = r.num_cols
        /\ tried' = r.tried
        /\ status' = page.status
        /\ ui' = page.ui
        /\ query' = ww.query
        /\ hrc_min' = ww.hrc_min
        /\ hrc_max' = ww.hrc_max
        /\ cr_limit' = ww.cr_limit
        /\ c_limit' = ww.c_limit
        /\ selected_materials' = ww.sel
        /\ results' = page.results
        /\ filtered_df' = page.filtered_df
        /\ subset' = page.subset
        /\ summary' = page.summary
        /\ traces' = page.traces
        /\ UNCHANGED file

\* process start: the first run of the script
Start == status = "init" /\ Pass(CurrentWidgets, TRUE)

\* a rerun with the widgets as they are
Rerun == status # "init" /\ Pass(CurrentWidgets, FALSE)

\* the user commits a new text in the search box (rendered whenever df is a table)
SetQuery(Q) ==
    /\ status \in {"ok", "crashed"}
    /\ ~df.none
    /\ \E q \in Q :
          /\ q # query
          /\ Pass([CurrentWidgets EXCEPT !.query = q], FALSE)

\* the user moves the hardness range slider (rendered only if HRC_Avg exists)
MoveHrc(S) ==
    /\ status = "ok"
    /\ HasCol(df, "HRC_Avg")
    /\ \E lo \in S, hi \in S :
          /\ lo <= hi
          /\ <<lo, hi>> # <<hrc_min, hrc_max>>
          /\ Pass([CurrentWidgets EXCEPT !.hrc_min = lo, !.hrc_max = hi], FALSE)

MoveCr(S) ==
    /\ status = "ok"
    /\ \E x \in S :
          /\ x # cr_limit
          /\ Pass([CurrentWidgets EXCEPT !.cr_limit = x], FALSE)

MoveC(S) ==
    /\ status = "ok"
    /\ \E x \in S :
          /\ x # c_limit
          /\ Pass([CurrentWidgets EXCEPT !.c_limit = x], FALSE)

\* the user changes the multiselect: any subset of its options
Select ==
    /\ status = "ok"
    /\ \E sel \in SUBSET Range(material_list(df)) :
          /\ sel # selected_materials
          /\ Pass([CurrentWidgets EXCEPT !.sel = sel], FALSE)

-----------------------------------------------------------------------------
(* Files.  A file is present or not; ok is the set of readers that parse   *)
(* it; cols and rows are its header and its cells as written (text);       *)
(* inthdr are the header cells a workbook stores as numbers.               *)

File(exists, ok, cols, inthdr, rows) ==
    [exists |-> exists, ok |-> ok, cols |-> cols, inthdr |-> inthdr, rows |-> rows]

\* all row sequences of at most n rows drawn from the set R
RowSeqs(R, n) == UNION {[1..k -> R] : k \in 0..n}

Row2(c1, v1, c2, v2) == (c1 :> v1) @@ (c2 :> v2)
Row3(c1, v1, c2, v2, c3, v3) == (c1 :> v1) @@ (c2 :> v2) @@ (c3 :> v3)
Row4(c1, v1, c2, v2, c3, v3, c4, v4) ==
    (c1 :> v1) @@ (c2 :> v2) @@ (c3 :> v3) @@ (c4 :> v4)

Blank == <<>>
T0 == <<"0">>
T1 == <<"1">>
T13 == <<"1", "3">>
T20 == <<"2", "0">>
T60 == <<"6", "0">>
TBad == <<"b", "a", "d">>
TInf == <<"i", "n", "f">>
TA == <<"a">>
TB == <<"b">>
TAB == <<"A", "B">>
TDot == <<"a", ".", "b">>

AllReaders == Range(Readers)

\* loader inputs: every presence / reader outcome, a hardness column holding
\* numbers, text, blanks and an infinity, and a workbook with a numeric header
LoadCols == {<<IdCol, "HRC_Avg">>, <<GradeCol, "HRC_Avg">>}

LoadRows(cols) == {Row2(cols[1], TA, cols[2], h) : h \in {T20, T60, TBad, Blank, TInf}}

\* the present files with header cols whose rows are at most n rows of R
FilesOf(Oks, cols, Hdrs, R, n) ==
    {File(TRUE, ok, cols, hdr, rows) : ok \in Oks, hdr \in Hdrs, rows \in RowSeqs(R, n)}

Absent == File(FALSE, {}, <<>>, {}, <<>>)

FilesLoad(n) ==
    {Absent} \cup
    UNION {FilesOf(SUBSET AllReaders, cols, SUBSET ({GradeCol} \cap Range(cols)),
                   LoadRows(cols), n) : cols \in LoadCols}

\* search inputs: text with a dot, upper and lower case, a numeric column
SearchCols == <<IdCol, "HRC_Avg">>

SearchRows ==
    {Row2(IdCol, TDot, "HRC_Avg", T20), Row2(IdCol, TAB, "HRC_Avg", Blank),
     Row2(IdCol, TB, "HRC_Avg", T60)}

FilesSearch(n) == FilesOf({{"csv-utf8"}}, SearchCols, {{}}, SearchRows, n)

QueryChars == {"A", ".", "("}

\* the texts of at most n characters
Queries(n) == UNION {[1..k -> QueryChars] : k \in 0..n}

\* preview inputs: tables shorter and longer than the preview
LongCols == <<DescCol>>

LongRows == {(DescCol :> TA), (DescCol :> TB)}

FilesLong(n) == FilesOf({{"csv-utf8"}}, LongCols, {{}}, LongRows, n)

QueriesFew == {<<>>, <<"a">>, <<"(">>}

\* filter inputs: every subset of the three filtered columns present
FilterRowsFull ==
    {Row4(IdCol, TA, "HRC_Avg", T20, "Cr_Avg", T13, "C_Avg", T1),
     Row4(IdCol, TA, "HRC_Avg", TBad, "Cr_Avg", T0, "C_Avg", T0),
     Row4(IdCol, TB, "HRC_Avg", T60, "Cr_Avg", T13, "C_Avg", T0),
     Row4(IdCol, TB, "HRC_Avg", T60, "Cr_Avg", T0, "C_Avg", T1)}

FilesFilter(n) ==
    FilesOf({{"csv-utf8"}}, <<IdCol, "HRC_Avg", "Cr_Avg", "C_Avg">>, {{}},
            FilterRowsFull, n)
    \cup FilesOf({{"csv-gbk"}}, <<"HRC_Avg">>, {{}},
                 {("HRC_Avg" :> h) : h \in {T20, TBad, T60, TInf}}, n)
    \cup FilesOf({{"excel"}}, <<IdCol, "Cr_Avg">>, {{}},
                 {Row2(IdCol, TA, "Cr_Avg", x) : x \in {T0, T13}}, n)
    \cup FilesOf({{"csv-utf8"}}, <<DescCol, "C_Avg">>, {{}},
                 {Row2(DescCol, TA, "C_Avg", x) : x \in {T0, T1}}, n)
    \cup FilesOf({{"csv-utf8"}}, <<DescCol>>, {{}}, LongRows, n)

HrcStops == {0, HrcDefaultMin, 25, HrcSliderMax}
CrStops == {0, 13, CrSliderMax}
CStops == {0, 1}

\* comparator inputs: repeated, distinct and blank identifiers; the
\* identifier, hardness and chromium columns each present or absent
CompareRowsFull ==
    {Row3(IdCol, TA, "HRC_Avg", T20, "Cr_Avg", T13),
     Row3(IdCol, TA, "HRC_Avg", T60, "Cr_Avg", T0),
     Row3(IdCol, TB, "HRC_Avg", T60, "Cr_Avg", T13),
     Row3(IdCol, Blank, "HRC_Avg", T20, "Cr_Avg", T0)}

FilesCompare(n) ==
    FilesOf({{"csv-utf8"}}, <<IdCol, "HRC_Avg", "Cr_Avg">>, {{}}, CompareRowsFull, n)
    \cup FilesOf({{"csv-utf8"}}, <<IdCol, DescCol>>, {{}},
                 {Row2(IdCol, i, DescCol, TA) : i \in {TA, TB, TAB}}, n)
    \cup FilesOf({{"csv-utf8"}}, <<"HRC_Avg", "Cr_Avg">>, {{}},
                 {Row2("HRC_Avg", T20, "Cr_Avg", x) : x \in {T0, T13}}, n)

\* whole-session inputs: failing files and loadable tables
SessionRows ==
    {Row3(IdCol, TA, "HRC_Avg", T20, "Cr_Avg", T13),
     Row3(IdCol, TA, "HRC_Avg", TBad, "Cr_Avg", T0),
     Row3(IdCol, TB, "HRC_Avg", T60, "Cr_Avg", T13)}

FilesAll(n) ==
    {Absent}
    \cup FilesOf({{}, {"excel"}}, <<GradeCol, "HRC_Avg">>, {{}, {GradeCol}},
                 LoadRows(<<GradeCol, "HRC_Avg">>), 1)
    \cup FilesOf({{"csv-utf8"}}, <<IdCol, "HRC_Avg", "Cr_Avg">>, {{}},
                 SessionRows, n)
    \cup FilesOf({{"csv-gbk"}}, <<DescCol>>, {{}}, LongRows, n)

HrcFew == {25, HrcDefaultMax}
CrFew == {0, 13}
CFew == {0, 1}

-----------------------------------------------------------------------------
(* Specifications *)

InitWith(F) ==
    /\ file \in F
    /\ cache = EmptyCache
    /\ df = None
    /\ num_cols = <<>>
    /\ tried = <<>>
    /\ status = "init"
    /\ ui = <<>>
    /\ query = <<>>
    /\ hrc_min = HrcLiteralMin
    /\ hrc_max = HrcLiteralMax
    /\ cr_limit = 0
    /\ c_limit = 0
    /\ selected_materials = {}
    /\ results = NoView
    /\ filtered_df = NoView
    /\ subset = NoView
    /\ summary = NoSummary
    /\ traces = <<>>

\* the whole session: every interaction
Init == InitWith(FilesAll(MaxSessionRows))
Next ==
    \/ Start
    \/ Rerun
    \/ SetQuery(QueriesFew)
    \/ MoveHrc(HrcFew)
    \/ MoveCr(CrFew)
    \/ MoveC(CFew)
    \/ Select
Spec == Init /\ [][Next]_vars

\* the loader: first run and reruns
InitLoad == InitWith(FilesLoad(MaxRows))
NextLoad == Start \/ Rerun
SpecLoad == InitLoad /\ [][NextLoad]_vars

\* the search box
InitSearch == InitWith(FilesSearch(MaxRows))
NextSearch == Start \/ SetQuery(Queries(MaxQueryLen))
SpecSearch == InitSearch /\ [][NextSearch]_vars

\* the preview of long and short tables
InitPreview == InitWith(FilesLong(MaxLongRows))
NextPreview == Start \/ SetQuery(QueriesFew)
SpecPreview == InitPreview /\ [][NextPreview]_vars

\* the sliders
InitFilter == InitWith(FilesFilter(MaxRows))
NextFilter == Start \/ MoveHrc(HrcStops) \/ MoveCr(CrStops) \/ MoveC(CStops)
SpecFilter == InitFilter /\ [][NextFilter]_vars

\* the multiselect
InitCompare == InitWith(FilesCompare(MaxRows))
NextCompare == Start \/ Select
SpecCompare == InitCompare /\ [][NextCompare]_vars

-----------------------------------------------------------------------------
(* Properties *)

Min(a, b) == IF a < b THEN a ELSE b

Increasing(idx) == \A i \in 1..Len(idx), j \in 1..Len(idx) : i < j => idx[i] < idx[j]

\* the view holding exactly the rows of t in the set keep, in table order
IsSelection(v, t, keep) ==
    /\ v.made
    /\ Increasing(v.idx)
    /\ Range(v.idx) = keep

NoFailedEarlier(f, i) == \A j \in 1..(i - 1) : Readers[j] \notin f.ok

\* load_data raised out of line 45 in this pass
LoadRaised == status = "crashed" /\ df.none

\* the readers a load of f calls: all up to and including the first that parses
ExpectedTried(f) ==
    IF \E i \in 1..Len(Readers) : Readers[i] \in f.ok
    THEN SubSeq(Readers, 1,
                CHOOSE i \in 1..Len(Readers) : Readers[i] \in f.ok /\ NoFailedEarlier(f, i))
    ELSE Readers

\* C1: after a run, load_data has tried the readers in the order csv-utf8,
\* csv-gbk, excel up to the first that parses and returned its table; it
\* has returned no table and a diagnostic if the file is absent or no reader
\* parses it; and in no case has it raised.
C1_LoadReturnsNeverRaises ==
    status # "init" =>
        /\ ~LoadRaised
        /\ tried \in {<<>>, IF file.exists THEN ExpectedTried(file) ELSE <<>>}
        /\ (file.exists /\ file.ok # {}) => ~df.none
        /\ (~file.exists \/ file.ok = {}) => (status = "error" /\ df.none)
        /\ status = "error" =>
              num_cols = IF file.exists THEN DiagUnreadable ELSE DiagNotFound

\* the text the file holds in row i of column c
Raw(i, c) == file.rows[i][c]

\* C2: after a successful load every cell of every column whose name
\* contains 'Avg' is a finite number: the value written in the file if that
\* is a number, 0 if it is other text or blank.
C2_AvgCellsFinite ==
    ~df.none =>
        \A c \in Range(df.cols) : Contains(NameText(c), Avg) =>
            \A i \in 1..Len(df.rows) :
                /\ IsFinite(df.rows[i][c])
                /\ df.rows[i][c].n = IF IsIntLit(Raw(i, c)) THEN ParseInt(Raw(i, c)) ELSE 0

\* the rows that pass every predicate whose column the table has
Survivors(t) ==
    {i \in 1..Len(t.rows) :
        /\ HasCol(t, "HRC_Avg") =>
              (CellGE(t.rows[i]["HRC_Avg"], hrc_min) /\ CellLE(t.rows[i]["HRC_Avg"], hrc_max))
        /\ HasCol(t, "Cr_Avg") => CellGE(t.rows[i]["Cr_Avg"], cr_limit)
        /\ HasCol(t, "C_Avg") => CellGE(t.rows[i]["C_Avg"], c_limit)}

\* the table of the scenario: HRC_Avg = [20.0, 0.0, 60.0]
ScenarioTable ==
    /\ ~df.none
    /\ HasCol(df, "HRC_Avg")
    /\ Column(df.rows, "HRC_Avg") = <<FloatCell(20), FloatCell(0), FloatCell(60)>>

\* C3: for every table and slider setting the filtered frame is exactly the
\* rows, in table order, that satisfy hrc_min <= HRC_Avg <= hrc_max, Cr_Avg >=
\* cr_limit and C_Avg >= c_limit, each predicate counting only if its column
\* exists; with HRC_Avg = [20.0, 0.0, 60.0] and the range [25, 70] that is
\* the third row alone.
C3_FilterIsConjunction ==
    status = "ok" =>
        /\ IsSelection(filtered_df, df, Survivors(df))
        /\ (ScenarioTable /\ hrc_min = 25 /\ hrc_max = HrcSliderMax
              /\ ~HasCol(df, "Cr_Avg") /\ ~HasCol(df, "C_Avg"))
             => filtered_df.idx = <<3>>

C3_Witness ==
    /\ status = "ok"
    /\ ScenarioTable
    /\ hrc_min = 25 /\ hrc_max = HrcSliderMax
    /\ filtered_df.idx = <<3>>

C3_WitnessConjunction ==
    /\ status = "ok"
    /\ HasCol(df, "HRC_Avg") /\ HasCol(df, "Cr_Avg") /\ HasCol(df, "C_Avg")
    /\ cr_limit > 0 /\ c_limit > 0 /\ hrc_min > 0
    /\ Len(df.rows) = MaxRows
    /\ Len(filtered_df.idx) = 1

\* the rows one of whose cells, as text, holds q as a substring, letter case
\* ignored
LiteralMatches(t, q) ==
    {i \in 1..Len(t.rows) :
        \E c \in Range(t.cols) :
            Contains(LowerText(Stringify(t.rows[i][c])), LowerText(q))}

\* C4: for every non-empty query the search result is exactly the rows, in
\* table order, one of whose columns as text contains the query as a literal
\* substring, letter case ignored, whatever characters the query holds.
C4_SearchIsLiteralSubstring ==
    (status # "init" /\ ~df.none /\ Len(query) > 0) =>
        /\ status = "ok"
        /\ IsSelection(results, df, LiteralMatches(df, query))

\* C5 as claimed: for an empty query the rows shown are the first rows of
\* the table and are never all of its rows.
C5_PreviewNeverFullTable ==
    (status = "ok" /\ Len(query) = 0) =>
        /\ results.made
        /\ \A k \in 1..Len(results.idx) : results.idx[k] = k
        /\ Len(results.idx) < Len(df.rows)

\* C5 as amended: for an empty query the rows shown are the first min(5, n)
\* rows of the n-row table; they are all of its rows exactly when n <= 5.
C5_PreviewIsFirstFive ==
    (status = "ok" /\ Len(query) = 0) =>
        /\ results.made
        /\ \A k \in 1..Len(results.idx) : results.idx[k] = k
        /\ Len(results.idx) = Min(HeadRows, Len(df.rows))
        /\ (Len(results.idx) = Len(df.rows)) <=> (Len(df.rows) <= HeadRows)

C5_Witness ==
    /\ status = "ok"
    /\ Len(query) = 0
    /\ Len(df.rows) > HeadRows
    /\ Len(results.idx) = HeadRows

\* the float r equals the value of the numeric cell c
RatioIsCell(r, c) ==
    \/ r.k = "inf" /\ c.k = "inf"
    \/ r.k \in {"int", "float"} /\ IsFinite(c) /\ r.num = c.n * r.den

RatioIsZero(r) == r.k \in {"int", "float"} /\ r.num = 0

SubsetRows == IF subset.made THEN Len(subset.idx) ELSE 0

\* for a one-row subset the mean of HRC_Avg and the maximum of Cr_Avg are that
\* row's values; a statistic whose column is absent is 0
StatsOfOneRow ==
    /\ (summary.made /\ SubsetRows = 1 /\ HasCol(df, "HRC_Avg")) =>
          RatioIsCell(summary.avg_hrc, df.rows[subset.idx[1]]["HRC_Avg"])
    /\ (summary.made /\ SubsetRows = 1 /\ HasCol(df, "Cr_Avg")) =>
          RatioIsCell(summary.max_cr, df.rows[subset.idx[1]]["Cr_Avg"])
    /\ (summary.made /\ ~HasCol(df, "HRC_Avg")) => summary.avg_hrc = Zero
    /\ (summary.made /\ ~HasCol(df, "Cr_Avg")) => summary.max_cr = Zero

\* C6 as claimed: the statistics of a one-row subset are that row's values,
\* an absent column gives 0, and for an empty subset the mean and the maximum
\* are both reported as 0.
C6_StatsWithEmptyDefault ==
    status = "ok" =>
        /\ StatsOfOneRow
        /\ SubsetRows = 0 =>
              (summary.made /\ RatioIsZero(summary.avg_hrc) /\ RatioIsZero(summary.max_cr))

\* C6 as amended: the statistics of a one-row subset are that row's values and
\* an absent column gives 0; the subset is empty only when nothing is selected,
\* and then no statistics are computed at all (and nothing fails).
C6_StatsOfSubset ==
    status = "ok" =>
        /\ StatsOfOneRow
        /\ SubsetRows = 0 <=> selected_materials = {}
        /\ SubsetRows = 0 => ~summary.made
        /\ SubsetRows > 0 => (summary.made /\ summary.avg_hrc.k # "nan"
                                /\ summary.max_cr.k # "nan")

C6_Witness ==
    /\ status = "ok"
    /\ SubsetRows = 1
    /\ Len(df.rows) > 1
    /\ HasCol(df, "HRC_Avg") /\ HasCol(df, "Cr_Avg")
    /\ summary.avg_hrc = Ratio("float", 60, 1)
    /\ summary.max_cr.num = 13

\* C7: whenever load_data returns no table (file absent, or no reader parses
\* it) the run only shows the diagnostic: no search, filter or comparison is
\* made, the diagnostic tells the two failures apart, each reader was called at
\* most once, and later runs call no reader again and end the same way.
C7_LoadFailureIsTerminal ==
    /\ [](status = "error" =>
            /\ ui = <<"error">>
            /\ df.none
            /\ ~results.made /\ ~filtered_df.made /\ ~subset.made /\ ~summary.made
            /\ traces = <<>>
            /\ num_cols = (IF file.exists THEN DiagUnreadable ELSE DiagNotFound)
            /\ DiagUnreadable # DiagNotFound
            /\ tried \in {<<>>, IF file.exists THEN Readers ELSE <<>>})
    /\ []((status # "init" /\ (~file.exists \/ file.ok = {})) => status = "error")
    /\ [][status = "error" => (status' = "error" /\ tried' = <<>>)]_vars

C7_Witness ==
    /\ status = "error"
    /\ file.exists
    /\ tried = Readers
    /\ num_cols = DiagUnreadable

C7_WitnessAbsent ==
    /\ status = "error"
    /\ ~file.exists
    /\ num_cols = DiagNotFound

\* C8: once a table is loaded, no search, filter or comparison changes it: df
\* and the cached table keep their rows, order, columns and cells.
C8_TableReadOnly ==
    [][~df.none => (df' = df /\ cache' = cache /\ df = cache.df)]_vars

C8_Witness ==
    /\ status = "ok"
    /\ Len(query) > 0
    /\ results.made /\ Len(results.idx) < Len(df.rows)
    /\ filtered_df.made /\ Len(filtered_df.idx) < Len(df.rows)
    /\ subset.made /\ Len(subset.idx) < Len(df.rows)
    /\ df = cache.df

\* C9 as claimed: with 0 or 1 identifiers selected no subset, statistics or
\* traces are produced; only with 2 or more is a comparison produced.
C9_NoComparisonBelowTwo ==
    status = "ok" =>
        /\ Cardinality(selected_materials) <= 1 =>
              (~subset.made /\ ~summary.made /\ traces = <<>> /\ ui[3] = "nocompare")
        /\ Cardinality(selected_materials) >= 2 =>
              (subset.made /\ summary.made /\ ui[3] = "compare")

\* C9 as amended: with no identifier selected (as always when the identifier
\* column is absent) no subset, statistics or traces are produced; with one or
\* more selected a comparison is produced.
C9_NoComparisonWhenNoneSelected ==
    status = "ok" =>
        /\ ~HasCol(df, IdCol) => selected_materials = {}
        /\ selected_materials = {} =>
              (~subset.made /\ ~summary.made /\ traces = <<>> /\ ui[3] = "nocompare")
        /\ selected_materials # {} =>
              /\ subset.made /\ summary.made /\ ui[3] = "compare"
              /\ Len(subset.idx) >= Cardinality(selected_materials)
              /\ Len(traces) = IF Len(valid_chem_cols(df)) > 0 THEN Len(subset.idx) ELSE 0

C9_Witness ==
    /\ status = "ok"
    /\ Cardinality(selected_materials) = 1
    /\ subset.made /\ summary.made
    /\ Len(traces) > 0

C9_WitnessNoIdColumn ==
    /\ status = "ok"
    /\ ~HasCol(df, IdCol)
    /\ Len(df.rows) > 0
    /\ ~subset.made /\ ~summary.made

=============================================================================
